---- MODULE Spec2Model ----
(***************************************************************************)
(* Video splitter: the interactive window (VideoSplitterApp), its crop     *)
(* view (CropView, ResizableRect) and the extraction worker                *)
(* (VideoSplitter, a QThread) that runs one ffmpeg process per cut point.  *)
(*                                                                         *)
(* Text is modelled by its structure:                                      *)
(*   - a time string is the sequence of its ":"-separated fields, each a   *)
(*     string ("00:00:03" is <<"00", "00", "03">>);                        *)
(*   - a cut point is the sequence of its " - "-separated time strings     *)
(*     ("00:00:01 - 00:00:03" is <<T1, T2>>);                              *)
(*   - a segment name is the sequence of its characters.                   *)
(* Python's None is the empty sequence and a value v is <<v>>.             *)
(* Lengths of the crop rectangle are kept in quarter pixels, so that the   *)
(* halves and quarters the view computes are exact.                        *)
(***************************************************************************)
EXTENDS Integers, Sequences, FiniteSets, TLC

\* The cut-point store holds at most MaxCuts entries.
MaxCuts == 2
\* A job list given to the worker directly has at most MaxJobs jobs.
MaxJobs == 3

None == <<>>
Some(v) == <<v>>

Range(s) == {s[k] : k \in DOMAIN s}

(***************************************************************************)
(* Text helpers                                                            *)
(***************************************************************************)

\* int(field): the fields int() takes, with their values. It takes a sign;
\* it raises ValueError on "xx" and on the empty field.
IntLiteral ==
    ("00" :> 0) @@ ("01" :> 1) @@ ("03" :> 3) @@ ("59" :> 59) @@ ("60" :> 60)
    @@ ("5" :> 5) @@ ("-5" :> -5)

\* The fields the add dialog's pattern \d{2} matches.
TwoDigits == {"00", "01", "03", "59", "60"}

AllInts(parts) == \A k \in DOMAIN parts : parts[k] \in DOMAIN IntLiteral

\* VideoSplitter.time_to_seconds: three, two or one fields; None otherwise
\* and on a field that int() rejects.
VS_time_to_seconds(parts) ==
    IF Len(parts) = 3
    THEN IF AllInts(parts)
         THEN Some(IntLiteral[parts[1]] * 3600 + IntLiteral[parts[2]] * 60
                   + IntLiteral[parts[3]])
         ELSE None
    ELSE IF Len(parts) = 2
    THEN IF AllInts(parts)
         THEN Some(IntLiteral[parts[1]] * 60 + IntLiteral[parts[2]])
         ELSE None
    ELSE IF Len(parts) = 1
    THEN IF AllInts(parts) THEN Some(IntLiteral[parts[1]]) ELSE None
    ELSE None

\* VideoSplitterApp.time_to_seconds: exactly three fields (the unpacking
\* raises ValueError otherwise), each accepted by int().
App_time_to_seconds(parts) ==
    IF Len(parts) = 3 /\ AllInts(parts)
    THEN Some(IntLiteral[parts[1]] * 3600 + IntLiteral[parts[2]] * 60
              + IntLiteral[parts[3]])
    ELSE None

Whitespace == {" "}

RECURSIVE lstrip(_)
lstrip(s) ==
    IF s # <<>> /\ Head(s) \in Whitespace THEN lstrip(Tail(s)) ELSE s

RECURSIVE rstrip(_)
rstrip(s) ==
    IF s # <<>> /\ s[Len(s)] \in Whitespace
    THEN rstrip(SubSeq(s, 1, Len(s) - 1))
    ELSE s

\* str.strip()
strip(s) == rstrip(lstrip(s))

ForbiddenChars == {"<", ">", ":", "\"", "/", "\\", "|", "?", "*"}

\* VideoSplitter.sanitize_filename
sanitize_filename(name) ==
    LET t == strip(name)
    IN  [k \in DOMAIN t |-> IF t[k] \in ForbiddenChars THEN "_" ELSE t[k]]

\* os.path.join(output_folder, f"{safe_name}.mp4")
OutputFile(folder, safe_name) ==
    [dir |-> folder, stem |-> safe_name, ext |-> ".mp4"]

(***************************************************************************)
(* The command line of one job                                             *)
(***************************************************************************)

Lit(text) == [kind |-> "lit", v |-> text]

\* A filter that names the corner before the size.
CropFilterCornerFirst(crop) ==
    [kind |-> "filter",
     v |-> <<"crop=", crop.x, crop.y, crop.width, crop.height>>]

\* f"crop={width}:{height}:{x}:{y}"
CropFilter(crop) ==
    [kind |-> "filter",
     v |-> <<"crop=", crop.width, crop.height, crop.x, crop.y>>]

\* The list of lines 231-240 and the extension of lines 242-244.
BuildCommand(start_time, video, duration, output_file, crop_params) ==
    << Lit("ffmpeg"),
       Lit("-ss"), [kind |-> "time", v |-> start_time],
       Lit("-i"), [kind |-> "input", v |-> video],
       Lit("-t"), [kind |-> "number", v |-> duration],
       Lit("-c:v"), Lit("libx264"),
       Lit("-c:a"), Lit("aac"),
       Lit("-y"),
       [kind |-> "output", v |-> output_file] >>
    \o (IF crop_params # None
        THEN << Lit("-vf"), CropFilter(crop_params[1]) >>
        ELSE << >>)

(***************************************************************************)
(* State                                                                   *)
(***************************************************************************)
VARIABLES
    \* VideoSplitterApp
    video_path,          \* None or <<file>>
    cut_points,          \* the list of cut points; the worker holds the same list
    moment_input,        \* the lines of the names text box
    output_folder_input, \* the text of the output folder field
    crop,                \* crop_rect, the four spin boxes, the crop tab
    rect_item,           \* CropView.rect_item and the view's video size
    enabled,             \* which buttons are enabled
    window,              \* "open", "asking" (the close question is shown),
                         \* "closed", "crashed" (the process was ended)
    errors,              \* the error boxes the last handler showed
    \* VideoSplitter
    thr,                 \* processor_thread: its arguments and locals
    procs,               \* the ffmpeg processes the run launched
    files,               \* the output files: who wrote last, and how far
    status_log,          \* status_updated emissions of the run
    progress_log,        \* progress_updated emissions of the run
    finished_queue,      \* finished_processing emissions not yet delivered
    \* observations
    attempted,           \* the job indices the loop body was entered for
    result               \* what on_processing_finished last reported

appVars == <<video_path, cut_points, moment_input, output_folder_input, crop,
             rect_item, enabled, window, errors>>
runVars == <<thr, procs, files, status_log, progress_log, finished_queue,
             attempted, result>>
vars == <<video_path, cut_points, moment_input, output_folder_input, crop,
          rect_item, enabled, window, errors, thr, procs, files, status_log,
          progress_log, finished_queue, attempted, result>>

(***************************************************************************)
(* VideoSplitter.run                                                       *)
(***************************************************************************)

\* id tells one thread object from the next one: start_cutting makes a new
\* object for every run.
NoThread ==
    [id |-> 0, pc |-> "none", i |-> 0, success_count |-> 0, total_segments |-> 0,
     process |-> 0, video_path |-> "", moments |-> <<>>,
     output_folder |-> <<>>, crop_params |-> None]

\* VideoSplitter.__init__
NewThread(id, video, moments, folder, crop_params) ==
    [id |-> id, pc |-> "start", i |-> 0, success_count |-> 0, total_segments |-> 0,
     process |-> 0, video_path |-> video, moments |-> moments,
     output_folder |-> folder, crop_params |-> crop_params]

\* QThread.isRunning()
isRunning(t) == t.pc \in {"start", "loop", "reading"}

\* What the body of the loop does with job i before it launches anything:
\*   "exception"    the except clause of line 270 is reached
\*   "format_error" a time is None (line 217)
\*   "bad_duration" duration <= 0 (line 222)
\*   "command"      the command is built and handed to Popen
JobKind(cut_point, moments, i) ==
    IF Len(cut_point) # 2
    THEN "exception"
    ELSE LET start_seconds == VS_time_to_seconds(cut_point[1])
             end_seconds == VS_time_to_seconds(cut_point[2])
         IN  IF i + 1 > Len(moments)
             THEN "exception"
             ELSE IF start_seconds = None \/ end_seconds = None
             THEN "format_error"
             ELSE IF end_seconds[1] - start_seconds[1] <= 0
             THEN "bad_duration"
             ELSE "command"

JobDuration(cut_point) ==
    VS_time_to_seconds(cut_point[2])[1] - VS_time_to_seconds(cut_point[1])[1]

JobOutput(t, i) ==
    OutputFile(t.output_folder, sanitize_filename(t.moments[i + 1]))

JobCommand(t, cut_point, i) ==
    BuildCommand(cut_point[1], t.video_path, JobDuration(cut_point),
                 JobOutput(t, i), t.crop_params)

\* A loop that gives up at the first job that does not produce a process.
NextIndexStopsAtFailure(i, how) ==
    IF how \in {"exception", "format_error", "bad_duration"}
    THEN i + MaxJobs
    ELSE i + 1

\* The loop variable after the body of job i ended, however it ended:
\* "continue", the except clause and the end of the body all go on to i + 1.
NextIndex(i, how) == i + 1

\* success_count after the return code of a process was read (line 261)
CountExit(success_count, returncode) ==
    IF returncode = 0 THEN success_count + 1 ELSE success_count

\* int((i + 1) / total_segments * 100)
ProgressValue(i, total_segments) == ((i + 1) * 100) \div total_segments

StatusLine(i, kind, name) == [job |-> i, kind |-> kind, name |-> name]

\* Lines 204-209. The output folder exists: start_cutting created it.
run_begin ==
    /\ thr.pc = "start"
    /\ thr' = [thr EXCEPT !.pc = "loop", !.i = 0, !.success_count = 0,
                          !.total_segments = Len(cut_points)]
    /\ UNCHANGED <<procs, files, status_log, progress_log, finished_queue,
                   attempted, result>>
    /\ UNCHANGED appVars

\* Lines 211-251: the next element of the list, up to the launch of its
\* process. Popen raises (spawn_ok = FALSE) or returns a running process.
run_job(spawn_ok) ==
    /\ thr.pc = "loop"
    /\ thr.i < Len(cut_points)
    /\ LET i == thr.i
           cut_point == cut_points[i + 1]
           kind == JobKind(cut_point, thr.moments, i)
       IN  /\ attempted' = Append(attempted, i)
           /\ IF kind = "command"
              THEN LET safe_name == sanitize_filename(thr.moments[i + 1])
                       out == JobOutput(thr, i)
                       cutting == StatusLine(i, "cutting", safe_name)
                   IN  IF spawn_ok
                       THEN /\ procs' = Append(procs,
                                   [job |-> i,
                                    command |-> JobCommand(thr, cut_point, i),
                                    output |-> out,
                                    status |-> "running",
                                    returncode |-> 0])
                            /\ files' = (out :> [by |-> i, state |-> "partial"])
                                        @@ files
                            /\ status_log' = Append(status_log, cutting)
                            /\ thr' = [thr EXCEPT !.pc = "reading",
                                                  !.process = Len(procs) + 1]
                       ELSE /\ status_log' = status_log \o
                                   << cutting,
                                      StatusLine(i, "unknown_error", <<>>) >>
                            /\ thr' = [thr EXCEPT
                                         !.i = NextIndex(i, "exception")]
                            /\ UNCHANGED <<procs, files>>
              ELSE /\ status_log' = Append(status_log,
                        StatusLine(i,
                            IF kind = "exception" THEN "unknown_error" ELSE kind,
                            IF kind = "exception" THEN <<>>
                            ELSE thr.moments[i + 1]))
                   /\ thr' = [thr EXCEPT !.i = NextIndex(i, kind)]
                   /\ UNCHANGED <<procs, files>>
    /\ UNCHANGED <<progress_log, finished_queue, result>>
    /\ UNCHANGED appVars

\* Lines 254-257 under the except clause of line 270: the text stream of the
\* process (universal_newlines=True) raises on bytes the locale's codec cannot
\* decode. The handler reports and the loop goes on; nothing waits for the
\* process, which keeps running.
run_read_raises ==
    /\ thr.pc = "reading"
    /\ status_log' = Append(status_log, StatusLine(thr.i, "unknown_error", <<>>))
    /\ thr' = [thr EXCEPT !.pc = "loop", !.i = NextIndex(thr.i, "exception")]
    /\ UNCHANGED <<procs, files, progress_log, finished_queue, attempted, result>>
    /\ UNCHANGED appVars

\* Lines 254-268: the stream ends when the process has exited, wait()
\* returns, the return code is read and the progress is emitted.
run_wait ==
    /\ thr.pc = "reading"
    /\ procs[thr.process].status = "exited"
    /\ LET p == procs[thr.process]
           safe_name == p.output.stem
       IN  /\ thr' = [thr EXCEPT
                        !.pc = "loop",
                        !.success_count = CountExit(@, p.returncode),
                        !.i = NextIndex(thr.i, "exit")]
           /\ status_log' = Append(status_log,
                StatusLine(thr.i,
                    IF p.returncode = 0 THEN "exported" ELSE "cut_failed",
                    safe_name))
           /\ progress_log' = Append(progress_log,
                                     ProgressValue(thr.i, thr.total_segments))
    /\ UNCHANGED <<procs, files, finished_queue, attempted, result>>
    /\ UNCHANGED appVars

\* Line 273, the last statement of run(): the thread ends with it.
run_finish ==
    /\ thr.pc = "loop"
    /\ thr.i >= Len(cut_points)
    /\ finished_queue' = Append(finished_queue,
            [success_count |-> thr.success_count,
             output_folder |-> thr.output_folder])
    /\ thr' = [thr EXCEPT !.pc = "finished"]
    /\ UNCHANGED <<procs, files, status_log, progress_log, attempted, result>>
    /\ UNCHANGED appVars

ExitCodes == {0, 1}

\* The encode tool: a running process exits with some code. With code 0 its
\* output file is complete.
process_exit(k, code) ==
    /\ k \in DOMAIN procs
    /\ procs[k].status = "running"
    /\ procs' = [procs EXCEPT ![k].status = "exited", ![k].returncode = code]
    /\ files' = IF code = 0
                THEN [files EXCEPT ![procs[k].output] =
                         [by |-> procs[k].job, state |-> "complete"]]
                ELSE files
    /\ UNCHANGED <<thr, status_log, progress_log, finished_queue, attempted,
                   result>>
    /\ UNCHANGED appVars

(***************************************************************************)
(* VideoSplitterApp: buttons, validation, start                            *)
(***************************************************************************)

\* self.video_width and self.video_height: set in __init__, assigned nowhere else.
app_video_width == 0
app_video_height == 0

\* What cv2 reports for the files that can be loaded (frame width, height).
VideoSize == ("a.mp4" :> <<1920, 1080>>) @@ ("b.mp4" :> <<640, 480>>)

\* The text of the output folder field, as a sequence of pieces (a piece is
\* a word or a blank). os.makedirs raises on the empty path.
DEFAULT_OUTPUT_FOLDER == <<"output_videos">>
FolderTexts == {DEFAULT_OUTPUT_FOLDER, <<" ">>}
MakedirsOk(folder) == folder # <<>>

\* update_cut_button_state
update_cut_button_state(e, video, cuts) ==
    [e EXCEPT !.cut_button = (video # None /\ Len(cuts) >= 1)]

\* A set_ui_enabled(False) that leaves the clear button enabled.
set_ui_enabled_but_clear(e, on, video, cuts, coerces) ==
    IF on /\ ~coerces
    THEN [e EXCEPT !.open_button = TRUE]
    ELSE [open_button |-> on,
          add_cut_button |-> (on /\ video # None),
          cut_button |-> (on /\ Len(cuts) >= 1),
          clear_cuts_button |-> TRUE,
          select_crop_btn |-> (on /\ video # None),
          browse_output_button |-> on]

\* A set_ui_enabled that leaves every button but the open button as it is.
set_ui_enabled_open_button_only(e, on, video, cuts, coerces) ==
    [e EXCEPT !.open_button = on]

\* set_ui_enabled(enabled). Line 923 hands "enabled and self.video_path" to
\* QPushButton.setEnabled: False when enabled is False, the path (a str, or
\* None) when it is True. A binding that converts by truth value goes on
\* (coerces); one that insists on a bool raises TypeError there, after line
\* 922 alone has run.
set_ui_enabled(e, on, video, cuts, coerces) ==
    IF on /\ ~coerces
    THEN [e EXCEPT !.open_button = TRUE]
    ELSE [open_button |-> on,
          add_cut_button |-> (on /\ video # None),
          cut_button |-> (on /\ Len(cuts) >= 1),
          clear_cuts_button |-> on,
          select_crop_btn |-> (on /\ video # None),
          browse_output_button |-> on]

\* get_segment_names: the stripped lines that are not blank.
RECURSIVE get_segment_names(_)
get_segment_names(lines) ==
    IF lines = <<>>
    THEN <<>>
    ELSE IF strip(Head(lines)) = <<>>
         THEN get_segment_names(Tail(lines))
         ELSE <<strip(Head(lines))>> \o get_segment_names(Tail(lines))

\* A check of one cut point that does not compare its end with its start.
CutPointErrorNoRange(cut_point) ==
    IF Len(cut_point) # 2
    THEN "bad_cut_point"
    ELSE IF App_time_to_seconds(cut_point[1]) = None
            \/ App_time_to_seconds(cut_point[2]) = None
         THEN "bad_time_format"
         ELSE ""

\* The check of one cut point in validate_inputs (lines 898-911): "" when it
\* passes, the error otherwise.
CutPointError(cut_point) ==
    IF Len(cut_point) # 2
    THEN "bad_cut_point"
    ELSE LET start_seconds == App_time_to_seconds(cut_point[1])
             end_seconds == App_time_to_seconds(cut_point[2])
         IN  IF start_seconds = None \/ end_seconds = None
             THEN "bad_time_format"
             ELSE IF end_seconds[1] <= start_seconds[1]
             THEN "bad_time_range"
             ELSE ""

\* A validation that does not compare the number of names with the number
\* of cut points.
validate_inputs_any_name_count(video, cuts, lines) ==
    LET bad == {k \in DOMAIN cuts : CutPointError(cuts[k]) # ""}
    IN  IF video = None THEN "no_video"
        ELSE IF Len(cuts) < 1 THEN "no_cut_points"
        ELSE IF bad # {}
        THEN CutPointError(cuts[CHOOSE k \in bad : \A j \in bad : k <= j])
        ELSE ""

\* validate_inputs: "" when the inputs pass, the first error otherwise.
validate_inputs(video, cuts, lines) ==
    LET moments == get_segment_names(lines)
        bad == {k \in DOMAIN cuts : CutPointError(cuts[k]) # ""}
    IN  IF video = None THEN "no_video"
        ELSE IF Len(cuts) < 1 THEN "no_cut_points"
        ELSE IF Len(moments) # Len(cuts) THEN "name_count"
        ELSE IF \E k \in DOMAIN moments : strip(moments[k]) = <<>>
        THEN "empty_name"
        ELSE IF bad # {}
        THEN CutPointError(cuts[CHOOSE k \in bad : \A j \in bad : k <= j])
        ELSE ""

\* validate_crop_params: the error boxes it shows and what it returns. When
\* the capture opens, width and height are replaced by the frame size; both
\* bounds tests compare with self.video_width / self.video_height and only
\* show their message (the return statements of lines 863 and 867 are
\* comments).
validate_crop_params(crop_params, video, cap_opened) ==
    LET x == crop_params.x
        y == crop_params.y
        width == IF cap_opened THEN VideoSize[video][1] ELSE crop_params.width
        height == IF cap_opened THEN VideoSize[video][2] ELSE crop_params.height
        shown == (IF x + width > app_video_width THEN {"crop_width"} ELSE {})
                 \cup (IF y + height > app_video_height THEN {"crop_height"} ELSE {})
                 \cup (IF width < 1 \/ height < 1 THEN {"crop_size"} ELSE {})
    IN  [shown |-> shown, ok |-> ~(width < 1 \/ height < 1)]

\* The crop_params dict of lines 821-828.
SpinValues(c) == [x |-> c.x, y |-> c.y, width |-> c.width, height |-> c.height]

Modal == window # "open"
Gone == window \in {"closed", "crashed"}

\* start_cutting. The encode processes of an earlier run have all exited
\* when the next run is started (a bound on the user, not on the program).
start_cutting(cap_opened) ==
    /\ ~Modal
    /\ enabled.cut_button
    /\ \A k \in DOMAIN procs : procs[k].status = "exited"
    /\ LET err == validate_inputs(video_path, cut_points, moment_input)
           moments == get_segment_names(moment_input)
           output_folder == strip(output_folder_input)
           crop_params == IF crop.rect # None THEN Some(SpinValues(crop)) ELSE None
           checked == IF crop_params # None
                      THEN validate_crop_params(crop_params[1], video_path[1],
                                                cap_opened)
                      ELSE [shown |-> {}, ok |-> TRUE]
       IN  IF err # ""
           THEN /\ errors' = {err}
                /\ UNCHANGED <<enabled, runVars>>
           ELSE IF ~checked.ok
           THEN /\ errors' = checked.shown
                /\ UNCHANGED <<enabled, runVars>>
           ELSE IF ~MakedirsOk(output_folder)
           THEN /\ errors' = checked.shown \cup {"makedirs"}
                /\ UNCHANGED <<enabled, runVars>>
           ELSE /\ errors' = checked.shown
                /\ enabled' = set_ui_enabled(enabled, FALSE, video_path,
                                             cut_points, TRUE)
                /\ thr' = NewThread(1 - thr.id, video_path[1], moments,
                                    output_folder, crop_params)
                /\ procs' = <<>>
                /\ status_log' = <<>>
                /\ progress_log' = <<>>
                /\ attempted' = <<>>
                /\ result' = None
                /\ UNCHANGED <<files, finished_queue>>
    /\ UNCHANGED <<video_path, cut_points, moment_input, output_folder_input,
                   crop, rect_item, window>>

\* load_video
load_video(file) ==
    /\ ~Modal
    /\ enabled.open_button
    /\ IF file = ""
       THEN UNCHANGED <<video_path, cut_points, enabled, errors>>
       ELSE IF file \notin DOMAIN VideoSize
       THEN /\ errors' = {"no_such_file"}
            /\ UNCHANGED <<video_path, cut_points, enabled>>
       ELSE /\ video_path' = Some(file)
            /\ cut_points' = <<>>
            /\ enabled' = update_cut_button_state(
                    [enabled EXCEPT !.select_crop_btn = TRUE,
                                    !.add_cut_button = TRUE],
                    Some(file), <<>>)
            /\ errors' = {}
    /\ UNCHANGED <<moment_input, output_folder_input, crop, rect_item, window>>
    /\ UNCHANGED runVars

\* The key of the sort of line 759.
SortKey(cut_point) == App_time_to_seconds(cut_point[1])[1]

\* list.append then list.sort(key): the sort is stable, so the new element
\* goes behind the elements whose key is not larger.
AppendSorted(cuts, cut_point) ==
    LET before == SelectSeq(cuts, LAMBDA c : SortKey(c) <= SortKey(cut_point))
        after == SelectSeq(cuts, LAMBDA c : SortKey(c) > SortKey(cut_point))
    IN  before \o <<cut_point>> \o after

\* ^\d{2}:\d{2}:\d{2}$
MatchesTimePattern(t) ==
    Len(t) = 3 /\ \A k \in DOMAIN t : t[k] \in TwoDigits

\* add_cut_point with the dialog answered OK (validate_and_add)
add_cut_point(start_time, end_time) ==
    /\ ~Modal
    /\ enabled.add_cut_button
    /\ video_path # None
    /\ Len(cut_points) < MaxCuts
    /\ LET cut_point == <<start_time, end_time>>
       IN  IF ~(MatchesTimePattern(start_time) /\ MatchesTimePattern(end_time))
           THEN /\ errors' = {"time_pattern"}
                /\ UNCHANGED <<cut_points, enabled>>
           ELSE IF cut_point \in Range(cut_points)
           THEN /\ errors' = {"duplicate"}
                /\ UNCHANGED <<cut_points, enabled>>
           ELSE /\ cut_points' = AppendSorted(cut_points, cut_point)
                /\ enabled' = update_cut_button_state(enabled, video_path,
                                                      cut_points')
                /\ errors' = {}
    /\ UNCHANGED <<video_path, moment_input, output_folder_input, crop,
                   rect_item, window>>
    /\ UNCHANGED runVars

\* clear_all_cuts with the question answered Yes
clear_all_cuts ==
    /\ ~Modal
    /\ enabled.clear_cuts_button
    /\ cut_points' = <<>>
    /\ enabled' = update_cut_button_state(enabled, video_path, <<>>)
    /\ errors' = {}
    /\ UNCHANGED <<video_path, moment_input, output_folder_input, crop,
                   rect_item, window>>
    /\ UNCHANGED runVars

\* The user edits the names text box (never disabled).
edit_names(lines) ==
    /\ ~Modal
    /\ moment_input # lines
    /\ moment_input' = lines
    /\ UNCHANGED <<video_path, cut_points, output_folder_input, crop,
                   rect_item, enabled, window, errors>>
    /\ UNCHANGED runVars

\* The user edits the output folder field (never disabled).
edit_output_folder(folder) ==
    /\ ~Modal
    /\ output_folder_input # folder
    /\ output_folder_input' = folder
    /\ UNCHANGED <<video_path, cut_points, moment_input, crop, rect_item,
                   enabled, window, errors>>
    /\ UNCHANGED runVars

(***************************************************************************)
(* The crop view. Lengths are in quarter pixels.                           *)
(***************************************************************************)

\* QPen(Qt.red, 2): the bounding rectangle of the item is its rectangle
\* widened by half the pen width on every side.
PenWidth == 2
\* max(..., 20) of mouseMoveEvent
MinRectSize == 20
\* QSpinBox.setRange(0, 9999) and setRange(1, 9999)
SpinMax == 9999

Quarters(px) == px * 4

\* int(v) of a float: towards zero
IntPart(q) == IF q >= 0 THEN q \div 4 ELSE -((-q) \div 4)

Max(a, b) == IF a >= b THEN a ELSE b
Min(a, b) == IF a <= b THEN a ELSE b

\* QSpinBox.setValue(int(v)) on a box of range lo..SpinMax
SpinSet(q, lo) == Max(lo, Min(SpinMax, IntPart(q)))

NoRectItem ==
    [state |-> "none", pos_x |-> 0, pos_y |-> 0, x |-> 0, y |-> 0, w |-> 0,
     h |-> 0, resizing |-> FALSE, video_width |-> 0, video_height |-> 0]

\* QGraphicsItem.sceneBoundingRect() of the rectangle item
sceneBoundingRect(ri) ==
    [x |-> ri.pos_x + ri.x - Quarters(PenWidth) \div 2,
     y |-> ri.pos_y + ri.y - Quarters(PenWidth) \div 2,
     width |-> ri.w + Quarters(PenWidth),
     height |-> ri.h + Quarters(PenWidth)]

\* handle_crop_updated(rect)
handle_crop_updated(c, rect) ==
    [c EXCEPT !.x = SpinSet(rect.x, 0),
              !.y = SpinSet(rect.y, 0),
              !.width = SpinSet(rect.width, 1),
              !.height = SpinSet(rect.height, 1),
              !.rect = Some(rect)]

\* CropView.setVideoFrame(frame) for a frame of the given size (pixels).
\* scene.clear() deletes the items of the scene; a rectangle is made only
\* when self.rect_item is unset, and adding a deleted one raises inside the
\* try.
setVideoFrame(ri, width, height) ==
    IF ri.state = "none"
    THEN [state |-> "alive", pos_x |-> 0, pos_y |-> 0,
          x |-> (Quarters(width) - Quarters(width) \div 2) \div 2,
          y |-> (Quarters(height) - Quarters(height) \div 2) \div 2,
          w |-> Quarters(width) \div 2,
          h |-> Quarters(height) \div 2,
          resizing |-> FALSE, video_width |-> width, video_height |-> height]
    ELSE [ri EXCEPT !.state = "deleted", !.video_width = width,
                    !.video_height = height]

\* An exception leaves a slot: the traceback is printed and the event loop
\* goes on, or the binding ends the process (qFatal).
Unhandled == {"printed", "abort"}

ProcessGone(t) == IF isRunning(t) THEN [t EXCEPT !.pc = "dead"] ELSE t

\* select_crop_region: the tab is enabled and a FrameCaptureThread started.
select_crop_region ==
    /\ ~Modal
    /\ enabled.select_crop_btn
    /\ video_path # None
    /\ crop.frame_pending = None
    /\ crop' = [crop EXCEPT !.tab_enabled = TRUE, !.frame_pending = video_path]
    /\ UNCHANGED <<video_path, cut_points, moment_input, output_folder_input,
                   rect_item, enabled, window, errors>>
    /\ UNCHANGED runVars

\* FrameCaptureThread.run, and show_frame_for_crop when it emits a frame.
frame_captured(ok) ==
    /\ ~Gone
    /\ crop.frame_pending # None
    /\ crop' = [crop EXCEPT !.frame_pending = None]
    /\ rect_item' = IF ok
                    THEN LET size == VideoSize[crop.frame_pending[1]]
                         IN  setVideoFrame(rect_item, size[1], size[2])
                    ELSE rect_item
    /\ UNCHANGED <<video_path, cut_points, moment_input, output_folder_input,
                   enabled, window, errors>>
    /\ UNCHANGED runVars

CropTabUsable == ~Modal /\ crop.tab_enabled

\* ResizableRect.mousePressEvent with the left button in the resize corner
mouse_press_resize ==
    /\ CropTabUsable
    /\ rect_item.state = "alive"
    /\ ~rect_item.resizing
    /\ rect_item' = [rect_item EXCEPT !.resizing = TRUE]
    /\ UNCHANGED <<video_path, cut_points, moment_input, output_folder_input,
                   crop, enabled, window, errors>>
    /\ UNCHANGED runVars

\* ResizableRect.mouseMoveEvent while resizing: the pointer is at p (item
\* coordinates).
mouse_move_resize(p) ==
    /\ CropTabUsable
    /\ rect_item.state = "alive"
    /\ rect_item.resizing
    /\ rect_item' = [rect_item EXCEPT
                       !.w = Max(p[1] - rect_item.x, Quarters(MinRectSize)),
                       !.h = Max(p[2] - rect_item.y, Quarters(MinRectSize))]
    /\ crop' = handle_crop_updated(crop, sceneBoundingRect(rect_item'))
    /\ UNCHANGED <<video_path, cut_points, moment_input, output_folder_input,
                   enabled, window, errors>>
    /\ UNCHANGED runVars

\* ResizableRect.mouseMoveEvent while not resizing: the item is dragged to
\* position p, and itemChange reports the new position.
mouse_move_drag(p) ==
    /\ CropTabUsable
    /\ rect_item.state = "alive"
    /\ ~rect_item.resizing
    /\ <<rect_item.pos_x, rect_item.pos_y>> # p
    /\ rect_item' = [rect_item EXCEPT !.pos_x = p[1], !.pos_y = p[2]]
    /\ crop' = handle_crop_updated(crop, sceneBoundingRect(rect_item'))
    /\ UNCHANGED <<video_path, cut_points, moment_input, output_folder_input,
                   enabled, window, errors>>
    /\ UNCHANGED runVars

\* ResizableRect.mouseReleaseEvent
mouse_release ==
    /\ CropTabUsable
    /\ rect_item.state = "alive"
    /\ rect_item' = [rect_item EXCEPT !.resizing = FALSE]
    /\ crop' = handle_crop_updated(crop, sceneBoundingRect(rect_item))
    /\ UNCHANGED <<video_path, cut_points, moment_input, output_folder_input,
                   enabled, window, errors>>
    /\ UNCHANGED runVars

\* confirm_crop_selection. On a deleted rectangle sceneBoundingRect() raises
\* before anything is assigned.
confirm_crop_selection(how) ==
    /\ CropTabUsable
    /\ rect_item.state # "none"
    /\ IF rect_item.state = "alive"
       THEN /\ crop' = [handle_crop_updated(crop, sceneBoundingRect(rect_item))
                          EXCEPT !.spins_enabled = TRUE]
            /\ UNCHANGED <<window, thr>>
       ELSE /\ UNCHANGED crop
            /\ window' = IF how = "abort" THEN "crashed" ELSE window
            /\ thr' = IF how = "abort" THEN ProcessGone(thr) ELSE thr
    /\ UNCHANGED <<video_path, cut_points, moment_input, output_folder_input,
                   rect_item, enabled, errors>>
    /\ UNCHANGED <<procs, files, status_log, progress_log, finished_queue,
                   attempted, result>>

\* cancel_crop_selection
cancel_crop_selection ==
    /\ CropTabUsable
    /\ crop.rect # None
    /\ crop' = [crop EXCEPT !.rect = None]
    /\ UNCHANGED <<video_path, cut_points, moment_input, output_folder_input,
                   rect_item, enabled, window, errors>>
    /\ UNCHANGED runVars

\* The user types into the four spin boxes (enabled by a confirmed crop).
edit_spins(v) ==
    /\ ~Modal
    /\ crop.spins_enabled
    /\ SpinValues(crop) # v
    /\ crop' = [crop EXCEPT !.x = v.x, !.y = v.y, !.width = v.width,
                            !.height = v.height]
    /\ UNCHANGED <<video_path, cut_points, moment_input, output_folder_input,
                   rect_item, enabled, window, errors>>
    /\ UNCHANGED runVars

(***************************************************************************)
(* The end of a run, and closing the window                                *)
(***************************************************************************)

\* on_processing_finished, a queued slot: it runs in the window's event
\* loop, also while a question box is open. how = "coerced": setEnabled
\* took the path for a bool; otherwise set_ui_enabled raised.
on_processing_finished(how) ==
    /\ ~Gone
    /\ finished_queue # <<>>
    /\ finished_queue' = Tail(finished_queue)
    /\ enabled' = set_ui_enabled(enabled, TRUE, video_path, cut_points,
                                 how = "coerced")
    /\ IF how = "coerced"
       THEN LET success_count == Head(finished_queue).success_count
                total_segments == Len(cut_points)
            IN  /\ result' = Some([succeeded |-> success_count,
                                   total |-> total_segments,
                                   output_dir |-> Head(finished_queue).output_folder])
                /\ errors' = IF success_count = total_segments
                             THEN {} ELSE {"partial"}
       ELSE UNCHANGED <<result, errors>>
    /\ window' = IF how = "abort" THEN "crashed" ELSE window
    /\ UNCHANGED <<video_path, cut_points, moment_input, output_folder_input,
                   crop, rect_item>>
    /\ UNCHANGED <<thr, procs, files, status_log, progress_log, attempted>>

\* closeEvent up to the question
close_request ==
    /\ window = "open"
    /\ window' = IF isRunning(thr) THEN "asking" ELSE "closed"
    /\ UNCHANGED <<video_path, cut_points, moment_input, output_folder_input,
                   crop, rect_item, enabled, errors>>
    /\ UNCHANGED runVars

\* QThread.terminate() followed by wait()
terminate(t) == IF isRunning(t) THEN [t EXCEPT !.pc = "terminated"] ELSE t

\* closeEvent from the answer on
close_reply(yes) ==
    /\ window = "asking"
    /\ IF yes
       THEN /\ thr' = terminate(thr)
            /\ window' = "closed"
       ELSE /\ window' = "open"
            /\ UNCHANGED thr
    /\ UNCHANGED <<video_path, cut_points, moment_input, output_folder_input,
                   crop, rect_item, enabled, errors>>
    /\ UNCHANGED <<procs, files, status_log, progress_log, finished_queue,
                   attempted, result>>

(***************************************************************************)
(* Inputs                                                                  *)
(***************************************************************************)

T1 == <<"00", "00", "01">>
T2 == <<"00", "00", "03">>
T3 == <<"00", "01", "00">>

\* What the add dialog is answered with: two ranges, a reversed range, and a
\* start the pattern rejects.
AddInputs == {<<T1, T2>>, <<T2, T3>>, <<T2, T1>>, <<<<"5", "00">>, T1>>}

NameA == <<"a">>
NameB == <<"a", ":">>
NameC == <<" ", "b">>

\* Texts of the names box: one name, two names, the same name twice.
NameTexts == {<<NameA>>, <<NameA, NameB>>, <<NameA, NameA>>}

\* Where the rectangle is dragged to, and where the resize corner is pulled
\* to (quarter pixels).
DragTargets == {<<-8000, -4000>>, <<8000, 0>>}
ResizePoints == {<<5000, 4000>>, <<40000, 40000>>}

(***************************************************************************)
(* The window after VideoSplitterApp.__init__                              *)
(***************************************************************************)

InitCrop ==
    [rect |-> None, x |-> 0, y |-> 0, width |-> 1920, height |-> 1080,
     spins_enabled |-> FALSE, tab_enabled |-> FALSE, frame_pending |-> None]

InitEnabled ==
    [open_button |-> TRUE, add_cut_button |-> FALSE, cut_button |-> FALSE,
     clear_cuts_button |-> TRUE, select_crop_btn |-> FALSE,
     browse_output_button |-> TRUE]

Init ==
    /\ video_path = None
    /\ cut_points = <<>>
    /\ moment_input = <<>>
    /\ output_folder_input = DEFAULT_OUTPUT_FOLDER
    /\ crop = InitCrop
    /\ rect_item = NoRectItem
    /\ enabled = InitEnabled
    /\ window = "open"
    /\ errors = {}
    /\ thr = NoThread
    /\ procs = <<>>
    /\ files = <<>>
    /\ status_log = <<>>
    /\ progress_log = <<>>
    /\ finished_queue = <<>>
    /\ attempted = <<>>
    /\ result = None

Worker ==
    \/ run_begin
    \/ \E spawn_ok \in BOOLEAN : run_job(spawn_ok)
    \/ run_read_raises
    \/ run_wait
    \/ run_finish

Tool == \E k \in DOMAIN procs : \E code \in ExitCodes : process_exit(k, code)

RunEnd ==
    \/ \E how \in {"coerced"} \cup Unhandled : on_processing_finished(how)
    \/ close_request
    \/ \E yes \in BOOLEAN : close_reply(yes)

\* The window without its crop tab.
Next ==
    \/ \E file \in {"", "missing.mp4", "a.mp4"} : load_video(file)
    \/ \E a \in AddInputs : add_cut_point(a[1], a[2])
    \/ clear_all_cuts
    \/ \E lines \in NameTexts : edit_names(lines)
    \/ \E cap_opened \in BOOLEAN : start_cutting(cap_opened)
    \/ Worker
    \/ Tool
    \/ RunEnd

Spec == Init /\ [][Next]_vars

(***************************************************************************)
(* The worker on its own: VideoSplitter constructed with a job list of any *)
(* content and started                                                     *)
(***************************************************************************)

\* Cut points a caller can hand over: ranges, a reversed range, an empty
\* range, a time that is no number, a text without " - ", a start of -5.
JobCuts == {<<T1, T2>>, <<T2, T3>>, <<T2, T1>>, <<T1, T1>>,
            <<<<"xx", "00", "01">>, T2>>, <<T1>>, <<<<"-5">>, T1>>}

JobLists == UNION {[1..n -> JobCuts] : n \in 1..MaxJobs}

JobNames(n) ==
    [k \in 1..n |-> IF k = 1 THEN NameA ELSE IF k = 2 THEN NameB ELSE NameC]

JobCrops == {None, Some([x |-> 0, y |-> 0, width |-> 100, height |-> 100])}

\* The worker constructed with the cut points and the names of one of the
\* jobs and with one of the crops.
WorkerInitNamed(jobs, crops) ==
    /\ video_path = Some("a.mp4")
    /\ \E job \in jobs :
         /\ cut_points = job.cut_points
         /\ moment_input = job.moments
    /\ output_folder_input = DEFAULT_OUTPUT_FOLDER
    /\ crop = InitCrop
    /\ rect_item = NoRectItem
    /\ enabled = set_ui_enabled(InitEnabled, FALSE, video_path, cut_points, TRUE)
    /\ window = "open"
    /\ errors = {}
    /\ \E crop_params \in crops :
         thr = NewThread(1, "a.mp4", moment_input,
                         DEFAULT_OUTPUT_FOLDER, crop_params)
    /\ procs = <<>>
    /\ files = <<>>
    /\ status_log = <<>>
    /\ progress_log = <<>>
    /\ finished_queue = <<>>
    /\ attempted = <<>>
    /\ result = None

\* The worker constructed with one of the job lists, named by JobNames.
WorkerInit(lists, crops) ==
    WorkerInitNamed({[cut_points |-> list, moments |-> JobNames(Len(list))] :
                        list \in lists}, crops)

EngineInit == WorkerInit(JobLists, JobCrops)

EngineNext == Worker \/ Tool

EngineSpec == EngineInit /\ [][EngineNext]_vars

(***************************************************************************)
(* The crop tab on its own                                                 *)
(***************************************************************************)

CropNext ==
    \/ \E file \in {"a.mp4", "b.mp4"} : load_video(file)
    \/ select_crop_region
    \/ \E ok \in BOOLEAN : frame_captured(ok)
    \/ mouse_press_resize
    \/ \E p \in ResizePoints : mouse_move_resize(p)
    \/ \E p \in DragTargets : mouse_move_drag(p)
    \/ mouse_release
    \/ \E how \in Unhandled : confirm_crop_selection(how)
    \/ cancel_crop_selection

CropSpec == Init /\ [][CropNext]_vars

(***************************************************************************)
(* The whole window, with one cut point, one name and one gesture of each  *)
(* kind                                                                    *)
(***************************************************************************)

GuiNext ==
    \/ \E file \in {"a.mp4"} : load_video(file)
    \/ \E a \in {<<T1, T2>>} : add_cut_point(a[1], a[2])
    \/ clear_all_cuts
    \/ \E lines \in {<<NameA>>} : edit_names(lines)
    \/ select_crop_region
    \/ \E ok \in BOOLEAN : frame_captured(ok)
    \/ mouse_press_resize
    \/ \E p \in {<<40000, 40000>>} : mouse_move_resize(p)
    \/ \E p \in {<<8000, 0>>} : mouse_move_drag(p)
    \/ mouse_release
    \/ \E how \in Unhandled : confirm_crop_selection(how)
    \/ cancel_crop_selection
    \/ \E v \in {[x |-> 1900, y |-> 0, width |-> 100, height |-> 100]} :
         edit_spins(v)
    \/ \E cap_opened \in BOOLEAN : start_cutting(cap_opened)
    \/ Worker
    \/ Tool
    \/ RunEnd

GuiSpec == Init /\ [][GuiNext]_vars

(***************************************************************************)
(* Properties of a run                                                     *)
(***************************************************************************)

FailureKinds == {"unknown_error", "format_error", "bad_duration", "cut_failed"}

\* C1: a run that is not cancelled enters the loop body for the jobs 0, 1,
\* ..., N-1 in this order and once each, whatever the earlier jobs did
\* (malformed time, duration not positive, spawn failure, exit code not 0),
\* and finished_processing is emitted only after job N-1 was entered.
C1_EveryJobOnceInOrder ==
    /\ Len(attempted) <= Len(cut_points)
    /\ \A k \in DOMAIN attempted : attempted[k] = k - 1
    /\ thr.pc = "finished" => Len(attempted) = Len(cut_points)
    /\ finished_queue # <<>> => thr.pc = "finished"

\* A finished run of two jobs or more whose first job failed and whose last
\* job was exported.
C1_Witness ==
    /\ thr.pc = "finished"
    /\ Len(cut_points) >= 2
    /\ \E k \in DOMAIN status_log :
         status_log[k].job = 0 /\ status_log[k].kind \in FailureKinds
    /\ \E k \in DOMAIN status_log :
         /\ status_log[k].job = Len(cut_points) - 1
         /\ status_log[k].kind = "exported"

Running == {k \in DOMAIN procs : procs[k].status = "running"}

\* C4: at no time are two processes of a run running, and the process of a
\* job is launched only after every earlier process of the run has exited.
C4_OneProcessAtATime ==
    /\ Cardinality(Running) <= 1
    /\ \A k \in DOMAIN procs : k < Len(procs) => procs[k].status = "exited"

IsFlag(token, text) == token.kind = "lit" /\ token.v = text

\* C10: in every command the run launches, the seek flag and its value come
\* before the input flag, a duration is given with its flag, and the output
\* path is the last argument.
C10_CommandShape ==
    \A k \in DOMAIN procs :
        LET c == procs[k].command
        IN  /\ \E s \in 1..(Len(c) - 1) : \E n \in 1..Len(c) :
                 /\ IsFlag(c[s], "-ss")
                 /\ c[s + 1].kind = "time"
                 /\ IsFlag(c[n], "-i")
                 /\ s + 1 < n
            /\ \E t \in 1..(Len(c) - 1) :
                 IsFlag(c[t], "-t") /\ c[t + 1].kind = "number"
            /\ c[Len(c)].kind = "output"

ZeroExits ==
    {k \in DOMAIN procs : procs[k].status = "exited" /\ procs[k].returncode = 0}

\* C2: 0 <= succeeded <= attempted <= total all along; when the run emits
\* finished_processing, the count it carries is the number of jobs whose
\* process exited with code 0; and the report shows that count with the
\* length the job list had when the run started.
C2_SuccessCount ==
    /\ [](/\ 0 <= thr.success_count
          /\ thr.success_count <= Len(attempted)
          /\ thr.pc # "start" => Len(attempted) <= thr.total_segments)
    /\ [][/\ Len(finished_queue') > Len(finished_queue) =>
               finished_queue'[Len(finished_queue')].success_count
                   = Cardinality(ZeroExits)
          /\ (result' # result /\ result' # None) =>
               /\ result'[1].succeeded = Head(finished_queue).success_count
               /\ result'[1].total = thr.total_segments]_vars

\* C3: a run emits finished_processing once at most, and when the emission
\* is delivered the window goes on, reports the result and has its buttons
\* enabled again, so that a new run can be started.
C3_ResultThenReenabled ==
    /\ [](Len(finished_queue) <= 1)
    /\ [][(finished_queue # <<>> /\ finished_queue' = <<>>) =>
            /\ ~isRunning(thr')
            /\ window' = window
            /\ result' # None
            /\ enabled'.cut_button
            /\ enabled'.add_cut_button]_vars

\* C5: a run is started only when no run is running, whatever was done in
\* the window before.
C5_OneRunAtATime == [][thr'.id # thr.id => ~isRunning(thr)]_vars

\* The second run is running, with a crop region chosen in the crop tab.
C5_Witness == thr.id = 0 /\ isRunning(thr) /\ crop.rect # None

Complete == {f \in DOMAIN files : files[f].state = "complete"}

\* C6: once a run is aborted it emits no finished_processing and nothing is
\* reported for it, none of its jobs is started any more, and the complete
\* output files stay as they are.
C6_AbortedRunIsSilent ==
    /\ [](thr.pc = "terminated" => finished_queue = <<>> /\ result = None)
    /\ [][thr.pc = "terminated" =>
            /\ finished_queue' = finished_queue
            /\ result' = result
            /\ Len(procs') = Len(procs)
            /\ \A f \in Complete : files'[f] = files[f]]_vars

\* C7: after the cancel no process the run launched is running.
C7_NoProcessSurvivesCancel == thr.pc = "terminated" => Running = {}

\* C8: no run is started with a crop region that reaches beyond the right
\* or the bottom edge of the video.
C8_CropOutOfBoundsFailsPlan ==
    (thr.pc # "none" /\ thr.crop_params # None) =>
        LET c == thr.crop_params[1]
            size == VideoSize[thr.video_path]
        IN  c.x + c.width <= size[1] /\ c.y + c.height <= size[2]

\* C9: a crop region set from the rectangle lies within the video the
\* rectangle was drawn on, with a width and a height of one pixel at least.
C9_CropWithinVideo ==
    crop.rect # None =>
        /\ crop.x >= 0
        /\ crop.y >= 0
        /\ crop.width >= 1
        /\ crop.height >= 1
        /\ crop.x + crop.width <= rect_item.video_width
        /\ crop.y + crop.height <= rect_item.video_height

(***************************************************************************)
(* Runs of two jobs with and without a crop region                         *)
(***************************************************************************)

\* The whole frame of a.mp4, typed into the spin boxes.
FullFrame == [x |-> 0, y |-> 0, width |-> 1920, height |-> 1080]

CropRunNext ==
    \/ \E file \in {"a.mp4"} : load_video(file)
    \/ \E a \in {<<T1, T2>>, <<T2, T3>>} : add_cut_point(a[1], a[2])
    \/ \E lines \in {<<NameA, NameB>>} : edit_names(lines)
    \/ select_crop_region
    \/ \E ok \in {TRUE} : frame_captured(ok)
    \/ \E how \in Unhandled : confirm_crop_selection(how)
    \/ cancel_crop_selection
    \/ \E v \in {FullFrame} : edit_spins(v)
    \/ \E cap_opened \in BOOLEAN : start_cutting(cap_opened)
    \/ Worker
    \/ Tool

CropRunSpec == Init /\ [][CropRunNext]_vars

Filters(c) == {j \in DOMAIN c : c[j].kind = "filter"}

\* C11: a command of a run holds a crop filter exactly when the run was
\* started with a crop region, which is the case exactly when crop_rect was
\* set at the start (also for the whole frame, not after a cancel); the
\* filter of every job is crop=width:height:x:y with the values of the run.
C11_CropFilterIffCropPresent ==
    /\ [](\A k \in DOMAIN procs :
            LET c == procs[k].command
            IN  IF thr.crop_params = None
                THEN Filters(c) = {}
                ELSE \E j \in Filters(c) :
                        /\ Filters(c) = {j}
                        /\ IsFlag(c[j - 1], "-vf")
                        /\ c[j].v = <<"crop=", thr.crop_params[1].width,
                                      thr.crop_params[1].height,
                                      thr.crop_params[1].x,
                                      thr.crop_params[1].y>>)
    /\ [][thr'.id # thr.id =>
            thr'.crop_params = IF crop.rect # None
                               THEN Some(SpinValues(crop))
                               ELSE None]_vars

\* Both jobs of a run whose crop region is the whole frame were launched.
C11_Witness ==
    /\ Len(procs) = 2
    /\ thr.crop_params = Some(FullFrame)

(***************************************************************************)
(* The window up to the start of a run: store, names, folder, crop region  *)
(***************************************************************************)

\* 60 seconds written with a second field of 60, and 63 seconds.
T3b == <<"00", "00", "60">>
T4 == <<"00", "01", "03">>

\* What the add dialog is answered with: ranges, a reversed range, one range
\* written in two ways, and a start the pattern rejects.
PlanAdds == {<<T1, T2>>, <<T2, T1>>, <<T3, T4>>, <<T3b, T4>>,
             <<<<"5", "00">>, T1>>}

\* Texts of the names box: one name, two names, a name between blanks with
\* a blank line.
PlanNames == {<<NameA>>, <<NameA, NameB>>, <<NameC, <<" ">>>>}

\* A region that reaches beyond the right edge of a.mp4.
BeyondRight == [x |-> 1900, y |-> 0, width |-> 100, height |-> 100]

PlanNext ==
    \/ \E file \in {"", "missing.mp4", "a.mp4", "b.mp4"} : load_video(file)
    \/ \E a \in PlanAdds : add_cut_point(a[1], a[2])
    \/ clear_all_cuts
    \/ \E lines \in PlanNames : edit_names(lines)
    \/ \E folder \in FolderTexts : edit_output_folder(folder)
    \/ select_crop_region
    \/ \E ok \in BOOLEAN : frame_captured(ok)
    \/ \E how \in Unhandled : confirm_crop_selection(how)
    \/ cancel_crop_selection
    \/ \E v \in {FullFrame, BeyondRight} : edit_spins(v)
    \/ \E cap_opened \in BOOLEAN : start_cutting(cap_opened)

PlanSpec == Init /\ [][PlanNext]_vars

\* The offsets a stored cut point stands for.
RangeValue(cut_point) ==
    <<App_time_to_seconds(cut_point[1])[1], App_time_to_seconds(cut_point[2])[1]>>

\* C12: every range in the cut-point store has its end after its start; an
\* add with end <= start leaves the store as it is.
C12_StoredRangesEndAfterStart ==
    \A k \in DOMAIN cut_points :
        RangeValue(cut_points[k])[2] > RangeValue(cut_points[k])[1]

\* C13: the store never holds two ranges with the same start and the same
\* end, and an add that is refused as a duplicate leaves the store as it is.
C13_NoDuplicateRanges ==
    /\ [](\A j, k \in DOMAIN cut_points :
            j # k => RangeValue(cut_points[j]) # RangeValue(cut_points[k]))
    /\ [][errors' = {"duplicate"} => cut_points' = cut_points]_vars

\* The error boxes of a refused start.
PlanErrors == {"no_video", "no_cut_points", "name_count", "empty_name",
               "bad_cut_point", "bad_time_format", "bad_time_range",
               "crop_width", "crop_height", "crop_size", "makedirs"}

CropWithin(c, video) ==
    /\ c.width >= 1
    /\ c.height >= 1
    /\ c.x + c.width <= VideoSize[video][1]
    /\ c.y + c.height <= VideoSize[video][2]

\* Every check of the plan passes in the current state.
PlanChecksPass ==
    /\ video_path # None
    /\ Len(cut_points) >= 1
    /\ Len(get_segment_names(moment_input)) = Len(cut_points)
    /\ \A k \in DOMAIN cut_points : CutPointError(cut_points[k]) = ""
    /\ crop.rect # None => CropWithin(SpinValues(crop), video_path[1])
    /\ MakedirsOk(strip(output_folder_input))

\* C14: a start makes a worker only when every check passes (video, one
\* range at least, as many names as ranges, every range readable with its
\* end after its start, the crop region valid, the output folder made); a
\* refused start changes nothing but the error shown.
C14_PlanAllOrNothing ==
    /\ [][thr'.id # thr.id => PlanChecksPass]_vars
    /\ [][(errors' # errors /\ errors' \cap PlanErrors # {}) =>
            \/ thr'.id # thr.id
            \/ UNCHANGED <<video_path, cut_points, moment_input,
                           output_folder_input, crop, rect_item, enabled,
                           window, runVars>>]_vars

(***************************************************************************)
(* Runs over a store built in any order, with names of any count           *)
(***************************************************************************)

NamedRunNext ==
    \/ \E file \in {"a.mp4"} : load_video(file)
    \/ \E a \in {<<T1, T2>>, <<T2, T3>>, <<T3, T4>>} : add_cut_point(a[1], a[2])
    \/ clear_all_cuts
    \/ \E lines \in PlanNames : edit_names(lines)
    \/ \E cap_opened \in BOOLEAN : start_cutting(cap_opened)
    \/ Worker
    \/ Tool

NamedRunSpec == Init /\ [][NamedRunNext]_vars

\* C15: a run starts with as many names as the store has ranges, the names
\* being the lines of the names box that are not blank, trimmed, in their
\* order; the store is in the order of the starts; and the process of job i
\* cuts range i into the file of name i, so the lookup of a name is never
\* out of range while the run goes on.
C15_NamesMatchSegments ==
    /\ [][thr'.id # thr.id =>
            /\ Len(thr'.moments) = Len(cut_points)
            /\ thr'.moments = get_segment_names(moment_input)
            /\ \A k \in DOMAIN thr'.moments :
                 /\ thr'.moments[k] # <<>>
                 /\ strip(thr'.moments[k]) = thr'.moments[k]]_vars
    /\ [](/\ \A j, k \in DOMAIN cut_points :
               j < k => RangeValue(cut_points[j])[1] <= RangeValue(cut_points[k])[1]
          /\ isRunning(thr) => Len(thr.moments) = Len(cut_points)
          /\ \A k \in DOMAIN procs :
               LET i == procs[k].job
               IN  /\ i + 1 <= Len(thr.moments)
                   /\ procs[k].output.stem = sanitize_filename(thr.moments[i + 1])
                   /\ isRunning(thr) =>
                        procs[k].command[3].v = cut_points[i + 1][1])

\* Both jobs of a run with two names were launched, the second for the
\* range that starts last.
C15_Witness ==
    /\ Len(procs) = 2
    /\ thr.moments = <<NameA, NameB>>
    /\ procs[2].command[3].v = T3

\* C16: a load that puts another video in place leaves the cut-point store
\* empty and the crop state at "no crop".
C16_LoadResetsSession ==
    [][video_path' # video_path =>
         /\ cut_points' = <<>>
         /\ crop'.rect = None]_vars

(***************************************************************************)
(* One run, up to its terminal result, with the names, the folder and the  *)
(* crop region edited meanwhile                                            *)
(***************************************************************************)

SessionNext ==
    \/ \E file \in {"a.mp4"} : load_video(file)
    \/ \E a \in {<<T1, T2>>, <<T2, T3>>} : add_cut_point(a[1], a[2])
    \/ clear_all_cuts
    \/ \E lines \in {<<NameA>>, <<NameA, NameB>>} : edit_names(lines)
    \/ \E folder \in FolderTexts : edit_output_folder(folder)
    \/ select_crop_region
    \/ \E ok \in {TRUE} : frame_captured(ok)
    \/ \E how \in Unhandled : confirm_crop_selection(how)
    \/ cancel_crop_selection
    \/ \E cap_opened \in BOOLEAN : start_cutting(cap_opened)
    \/ Worker
    \/ Tool

SessionSpec == Init /\ [][SessionNext]_vars

\* C17: while a run is running no step changes what its worker reads: the
\* list of cut points it shares with the window, its names, its crop
\* parameters, its output folder and its video.
C17_JobListImmutable ==
    [][(isRunning(thr) /\ thr'.id = thr.id) =>
         /\ cut_points' = cut_points
         /\ thr'.moments = thr.moments
         /\ thr'.crop_params = thr.crop_params
         /\ thr'.output_folder = thr.output_folder
         /\ thr'.video_path = thr.video_path]_vars

\* A run is at its second job while the names box, the folder field and the
\* crop region have been changed since its start.
C17_Witness ==
    /\ isRunning(thr)
    /\ Len(procs) = 2
    /\ get_segment_names(moment_input) # thr.moments
    /\ strip(output_folder_input) # thr.output_folder
    /\ crop.rect # None
    /\ thr.crop_params = None

\* num / den rounded to the nearest integer (halves upwards).
Rounded(num, den) == (2 * num + den) \div (2 * den)

\* C18: when the process of job i of a run of n jobs has exited with code 0,
\* the progress emitted is (i + 1) / n * 100 rounded to the nearest integer.
C18_ProgressIsRounded ==
    [][(Len(progress_log') > Len(progress_log)
          /\ procs[thr.process].returncode = 0) =>
         progress_log'[Len(progress_log')]
             = Rounded((thr.i + 1) * 100, thr.total_segments)]_vars

(***************************************************************************)
(* Time texts handed to the worker                                         *)
(***************************************************************************)

\* One, two and three fields, a second field of 60, a field that is no
\* number, an empty text, an empty field, a negative field, four fields.
TimeTexts == {T1, T3, <<"01", "00">>, <<"5">>, <<"00", "00", "60">>,
              <<"xx", "00", "01">>, <<"">>, <<"00", "", "01">>, <<"-5">>,
              <<"00", "00", "00", "01">>}

\* A worker with a single job whose start and end are any two of the texts.
ParseLists == {<< <<start_time, end_time>> >> :
                  start_time \in TimeTexts, end_time \in TimeTexts}

ParseInit == WorkerInit(ParseLists, {None})

ParseSpec == ParseInit /\ [][EngineNext]_vars

\* The number a time text stands for when it has one, two or three fields
\* that are all integers of at least zero; None for every other text.
NonNegativeField(field) ==
    field \in DOMAIN IntLiteral /\ IntLiteral[field] >= 0

ExpectedSeconds(parts) ==
    IF Len(parts) \in 1..3 /\ \A k \in DOMAIN parts : NonNegativeField(parts[k])
    THEN LET n == Len(parts)
             v(k) == IntLiteral[parts[k]]
         IN  Some(IF n = 1 THEN v(1)
                  ELSE IF n = 2 THEN v(1) * 60 + v(2)
                  ELSE v(1) * 3600 + v(2) * 60 + v(3))
    ELSE None

\* A cut point that is no pair of times, or has a time that stands for no
\* number.
Malformed(cut_point) ==
    \/ Len(cut_point) # 2
    \/ \E j \in DOMAIN cut_point : ExpectedSeconds(cut_point[j]) = None

NonPositive(cut_point) ==
    /\ ~Malformed(cut_point)
    /\ ExpectedSeconds(cut_point[2])[1] - ExpectedSeconds(cut_point[1])[1] <= 0

SkippedKinds == {"format_error", "bad_duration"}

\* C19: a job whose range is malformed or not longer than zero never gets a
\* process; the step that takes it up reports a failure that names the job,
\* leaves the success count alone and moves on to the next job, and the job
\* is part of the total.
C19_BadJobsAreSkipped ==
    /\ [](\A i \in Range(attempted) :
            (Malformed(cut_points[i + 1]) \/ NonPositive(cut_points[i + 1]))
            => /\ \A k \in DOMAIN procs : procs[k].job # i
               /\ \E k \in DOMAIN status_log :
                    /\ status_log[k].job = i
                    /\ status_log[k].kind \in SkippedKinds
                    /\ status_log[k].name = thr.moments[i + 1]
               /\ thr.total_segments = Len(cut_points))
    /\ [][(/\ Len(attempted') > Len(attempted)
           /\ \/ Malformed(cut_points[thr.i + 1])
              \/ NonPositive(cut_points[thr.i + 1]))
          => /\ thr'.success_count = thr.success_count
             /\ thr'.i = thr.i + 1
             /\ thr'.pc = "loop"]_vars

\* C20: on every time text the worker has parsed, time_to_seconds gives the
\* number the text stands for, and the format error on every other text.
C20_TimecodeParse ==
    \A i \in Range(attempted) :
        \A j \in DOMAIN cut_points[i + 1] :
            VS_time_to_seconds(cut_points[i + 1][j])
                = ExpectedSeconds(cut_points[i + 1][j])

(***************************************************************************)
(* Runs whose names meet in one output file                                *)
(***************************************************************************)

\* Names with blanks around them, with characters a file name cannot hold,
\* and names that differ only in such characters.
StemNames == {<<"a">>, <<"a", ":">>, <<"a", "_">>, <<" ", "a", " ">>,
              <<"a", "?">>, <<"<", " ", "*">>}

\* One to MaxJobs jobs, each cutting the same range, under any of the names.
StemJobs ==
    UNION {{[cut_points |-> [k \in 1..n |-> <<T1, T2>>], moments |-> names] :
               names \in [1..n -> StemNames]} : n \in 1..MaxJobs}

OutputInit == WorkerInitNamed(StemJobs, {None})

OutputSpec == OutputInit /\ [][EngineNext]_vars

\* C21: the output of job i lies in the output folder, has the extension
\* .mp4 and the stem of name i with the blanks around it removed and every
\* one of < > : " / \ | ? * replaced by _; the stem holds none of these
\* characters and sanitizing it again leaves it as it is; jobs whose names
\* give the same stem write the same path, and once a later job on a path has
\* exited with 0 the file at that path is the complete output of that job.
C21_OutputPaths ==
    /\ \A k \in DOMAIN procs :
         LET out == procs[k].output
             trimmed == strip(thr.moments[procs[k].job + 1])
         IN  /\ out.dir = thr.output_folder
             /\ out.ext = ".mp4"
             /\ DOMAIN out.stem = DOMAIN trimmed
             /\ \A c \in DOMAIN trimmed :
                    out.stem[c] = IF trimmed[c] \in ForbiddenChars
                                  THEN "_" ELSE trimmed[c]
             /\ \A c \in DOMAIN out.stem : out.stem[c] \notin ForbiddenChars
             /\ sanitize_filename(out.stem) = out.stem
             /\ \E c \in DOMAIN procs[k].command :
                    /\ procs[k].command[c].kind = "output"
                    /\ procs[k].command[c].v = out
    /\ \A j, k \in DOMAIN procs :
         sanitize_filename(thr.moments[procs[j].job + 1])
             = sanitize_filename(thr.moments[procs[k].job + 1])
         => procs[j].output = procs[k].output
    /\ \A k \in DOMAIN procs :
         (/\ procs[k].status = "exited"
          /\ procs[k].returncode = 0
          /\ \A m \in DOMAIN procs : m > k => procs[m].output # procs[k].output)
         => files[procs[k].output] = [by |-> procs[k].job, state |-> "complete"]

\* C22: in a run started by start_cutting no job is skipped for its time
\* format or for a duration that is not positive: the step that takes a job
\* up reports the cut and hands the command to Popen, which gives the job its
\* process unless Popen itself raises; and the store is in ascending order of
\* start time whenever it changes.
C22_NoSkipInStartedRuns ==
    /\ [](\A k \in DOMAIN status_log : status_log[k].kind \notin SkippedKinds)
    /\ [][Len(attempted') > Len(attempted)
          => /\ \E k \in DOMAIN status_log' \ DOMAIN status_log :
                  /\ status_log'[k].kind = "cutting"
                  /\ status_log'[k].job = thr.i
             /\ \/ /\ Len(procs') = Len(procs) + 1
                   /\ procs'[Len(procs')].job = thr.i
                \/ /\ procs' = procs
                   /\ status_log'[Len(status_log')].kind = "unknown_error"]_vars
    /\ [][cut_points' # cut_points
          => \A j, k \in DOMAIN cut_points' :
                j < k => SortKey(cut_points'[j]) <= SortKey(cut_points'[k])]_vars

\* Both jobs of a run started on a store of two ranges were launched, the
\* range that starts first as the first job.
C22_Witness ==
    /\ Len(procs) = 2
    /\ procs[1].command[3].v = T1
    /\ procs[2].command[3].v = T2
    /\ cut_points = <<<<T1, T2>>, <<T2, T3>>>>

====
